---- MODULE Spec2Model ----
(***************************************************************************)
(* The rooted virtual filesystem of src/rust/fs/src/winfs.rs (WinFS):      *)
(* construction, read_link, stat_sync, path_metadata and scandir, run      *)
(* against a small filesystem that another process may delete from.        *)
(*                                                                         *)
(* A path is a record [abs, comps]: whether it starts at "/", and its      *)
(* components (".." included, never normalised away).  An Option is a      *)
(* tuple of length 0 or 1.  A Result is [tag, val, err] with tag "Ok",     *)
(* "Err" or "Panic".  The timestamps of PathMetadata (accessed, created,   *)
(* modified) are copied from the OS unexamined and are left out.           *)
(***************************************************************************)
EXTENDS Integers, Sequences, FiniteSets, TLC

VARIABLES
    fs,                 \* the filesystem now: absolute components -> node
    vfs,                \* the result of the constructor, once called
    ctor,               \* how the constructor was called (its arguments)
    debug_assertions,   \* cfg!(debug_assertions) of the build
    ignore,             \* the GitignoreStyleExcludes: the ignored relative paths
    pc,                 \* "idle", or "pm_read": path_metadata awaits its read_link
    inflight,           \* the locals of the suspended path_metadata call
    res,                \* the last completed call: [op, arg, r, queried, task]; none while one is suspended
    fsAtCall,           \* the filesystem at that call's first query
    fsAtRead            \* the filesystem at that call's last query

vars == <<fs, vfs, ctor, debug_assertions, ignore, pc, inflight, res, fsAtCall, fsAtRead>>

\* ------------------------------------------------------------------ bounds

\* Symbolic links followed in one path resolution before the OS gives up.
MaxSymlinkHops == 3
\* Deletions the other process performs in one behaviour.
MaxDeletes == 2

\* ------------------------------------------------------- Option and Result

None == <<>>
Some(x) == <<x>>

Part(text, path) == [text |-> text, path |-> path]
IoError(kind, msg) == [kind |-> kind, msg |-> msg]
OsError(kind) == IoError(kind, <<Part("os error", None)>>)

Ok(v) == [tag |-> "Ok", val |-> Some(v), err |-> None]
Err(e) == [tag |-> "Err", val |-> None, err |-> Some(e)]
Panic(text) == [tag |-> "Panic", val |-> None, err |-> Some(IoError("panic", <<Part(text, None)>>))]

\* ------------------------------------------------------------ std::path

Path(abs, comps) == [abs |-> abs, comps |-> comps]
Abs(comps) == Path(TRUE, comps)
Rel(comps) == Path(FALSE, comps)

is_absolute(p) == p.abs

\* Path::join: an absolute argument replaces the receiver.
join(a, b) == IF is_absolute(b) THEN b ELSE Path(a.abs, a.comps \o b.comps)

\* Path::parent: None for "" and for "/".
parent(p) ==
    IF p.comps = <<>> THEN None
    ELSE Some(Path(p.abs, SubSeq(p.comps, 1, Len(p.comps) - 1)))

\* Path::file_name: the last component, unless there is none or it is "..".
file_name(p) ==
    IF p.comps = <<>> \/ p.comps[Len(p.comps)] = ".." THEN None
    ELSE Some(Rel(<<p.comps[Len(p.comps)]>>))

\* ------------------------------------------------------- the filesystem

Node(kind, target, mode, len, noaccess) ==
    [kind |-> kind, target |-> target, mode |-> mode, len |-> len, noaccess |-> noaccess]
DirNode == Node("dir", None, 493, 0, FALSE)
LockedDirNode == Node("dir", None, 0, 0, TRUE)
FileNode(mode, len) == Node("file", None, mode, len, FALSE)
FifoNode == Node("fifo", None, 420, 0, FALSE)
LinkNode(target) == Node("symlink", Some(target), 511, Len(target.comps), FALSE)

\* The working directory of the process (relative paths start here).
Cwd == <<"work">>

\* The filesystem before anything is deleted.
InitialFs ==
    LET D == { <<>>, <<"repo">>, <<"repo", "sub">>, <<"etc">>, <<"work">> } IN
    [p \in D |-> DirNode]
    @@ (<<"repo", "locked">> :> LockedDirNode)
    @@ (<<"repo", "locked", "x">> :> FileNode(420, 1))
    @@ (<<"repo", "a.txt">> :> FileNode(420, 10))
    @@ (<<"repo", "run.sh">> :> FileNode(493, 7))
    @@ (<<"repo", "pipe">> :> FifoNode)
    @@ (<<"repo", "link">> :> LinkNode(Rel(<<"a.txt">>)))
    @@ (<<"repo", "esc">> :> LinkNode(Abs(<<"etc">>)))
    @@ (<<"repo", "sub", "up">> :> LinkNode(Rel(<<"..", "a.txt">>)))
    @@ (<<"repo", "sub", "abs">> :> LinkNode(Abs(<<"etc", "passwd">>)))
    @@ (<<"repo", "sub", "dangling">> :> LinkNode(Rel(<<"gone.txt">>)))
    @@ (<<"etc", "passwd">> :> FileNode(420, 5))
    @@ (<<"work", "r">> :> LinkNode(Rel(<<"..", "repo">>)))
    @@ (<<"work", "loop">> :> LinkNode(Rel(<<"loop">>)))

\* What the other process may delete.
Deletable ==
    { <<"repo", "a.txt">>, <<"repo", "link">>, <<"repo", "pipe">>,
      <<"repo", "sub", "up">>, <<"repo", "sub", "abs">> }

OsOk(at) == [ok |-> TRUE, kind |-> "", at |-> at]
OsFail(kind) == [ok |-> FALSE, kind |-> kind, at |-> <<>>]

\* Where a path starts: "/" or the working directory.
Anchor(p) == IF p.abs THEN p.comps ELSE Cwd \o p.comps

\* The kernel's path walk: `cur` is the directory reached, `rest` what is
\* left; a symbolic link is followed unless it is the last component and
\* `follow` is off.
RECURSIVE Walk(_, _, _, _, _)
Walk(f, cur, rest, follow, fuel) ==
    IF rest = <<>> THEN OsOk(cur)
    ELSE
        LET c == Head(rest)
            more == Tail(rest)
            p == cur \o <<c>>
        IN
        IF c = ".."
        THEN Walk(f, IF cur = <<>> THEN cur ELSE SubSeq(cur, 1, Len(cur) - 1), more, follow, fuel)
        ELSE IF p \notin DOMAIN f THEN OsFail("NotFound")
        ELSE IF f[p].kind = "symlink" /\ (more # <<>> \/ follow)
        THEN IF fuel = 0 THEN OsFail("FilesystemLoop")
             ELSE LET t == f[p].target[1] IN
                  Walk(f, IF t.abs THEN <<>> ELSE cur, t.comps \o more, follow, fuel - 1)
        ELSE IF more # <<>> /\ f[p].kind # "dir" THEN OsFail("NotADirectory")
        ELSE IF more # <<>> /\ f[p].noaccess THEN OsFail("PermissionDenied")
        ELSE Walk(f, p, more, follow, fuel)

\* std::fs::canonicalize: the absolute path with every link resolved.
canonicalize(f, p) == Walk(f, <<>>, Anchor(p), TRUE, MaxSymlinkHops)

OsMeta(r, f) == [ok |-> r.ok, kind |-> r.kind, md |-> IF r.ok THEN f[r.at] ELSE DirNode]

\* std::fs::metadata (stat): follows a final link.
metadata(f, p) == OsMeta(Walk(f, <<>>, Anchor(p), TRUE, MaxSymlinkHops), f)

\* std::fs::symlink_metadata (lstat): does not follow a final link.
symlink_metadata(f, p) == OsMeta(Walk(f, <<>>, Anchor(p), FALSE, MaxSymlinkHops), f)

\* std::fs::read_link: the raw target, as stored.
os_read_link(f, p) ==
    LET r == Walk(f, <<>>, Anchor(p), FALSE, MaxSymlinkHops) IN
    IF ~r.ok THEN [ok |-> FALSE, kind |-> r.kind, target |-> Rel(<<>>)]
    ELSE IF f[r.at].kind # "symlink" THEN [ok |-> FALSE, kind |-> "InvalidInput", target |-> Rel(<<>>)]
    ELSE [ok |-> TRUE, kind |-> "", target |-> f[r.at].target[1]]

\* ------------------------------------------------------------ construction

Instance(root, symlink_behavior) == [root |-> root, symlink_behavior |-> symlink_behavior]
CtorError(root, cause) == [path |-> root, cause |-> cause]
NotConstructed == [tag |-> "None", val |-> None, err |-> None]

\* The constructor without its directory check.
new_accepts_non_directory(f, root, symlink_behavior) ==
    LET canonical == canonicalize(f, root) IN
    IF ~canonical.ok THEN Err(CtorError(root, OsError(canonical.kind)))
    ELSE Ok(Instance(Abs(canonical.at), symlink_behavior))

new_with_symlink_behavior(f, root, symlink_behavior) ==
    LET canonical == canonicalize(f, root) IN
    IF ~canonical.ok THEN Err(CtorError(root, OsError(canonical.kind)))
    ELSE
        LET m == metadata(f, Abs(canonical.at)) IN
        IF ~m.ok THEN Err(CtorError(root, OsError(m.kind)))
        ELSE IF m.md.kind = "dir" THEN Ok(Instance(Abs(canonical.at), symlink_behavior))
        ELSE Err(CtorError(root, IoError("InvalidInput", <<Part("Not a directory.", None)>>)))

new(f, root) == new_with_symlink_behavior(f, root, "Aware")

\* ------------------------------------------------------------- operations

\* An operation's outcome: its result and the absolute paths it handed to
\* the OS.
Outcome(r, queried) == [r |-> r, queried |-> queried]

\* The ignore-rule engine: a stat is ignored when its path is in the set.
GitignoreIsIgnored(ign, stat) == stat.path \in ign

\* is_ignored that never consults the ignore set.
is_ignored_never(ign, stat) == FALSE

is_ignored(ign, stat) == GitignoreIsIgnored(ign, stat)

file_path(v, file) == join(v.root, file.path)

\* read_link without the absolute-target check: the target is joined as is.
read_link_accepts_absolute(f, v, link) ==
    LET link_parent == parent(link)
        link_abs == join(v.root, link)
        raw == os_read_link(f, link_abs)
    IN
    Outcome(
        IF ~raw.ok
        THEN Err(IoError(raw.kind, <<Part("Failed to read link", Some(link_abs)), Part("os error", None)>>))
        ELSE IF link_parent # None THEN Ok(join(link_parent[1], raw.target))
        ELSE Err(IoError("InvalidData",
                 <<Part("Failed to read link", Some(link_abs)),
                   Part("Symlink without a parent?", Some(raw.target))>>)),
        {link_abs})

\* read_link that returns the raw target, not joined onto the link's parent.
read_link_unjoined(f, v, link) ==
    LET link_abs == join(v.root, link)
        raw == os_read_link(f, link_abs)
    IN
    Outcome(
        IF ~raw.ok
        THEN Err(IoError(raw.kind, <<Part("Failed to read link", Some(link_abs)), Part("os error", None)>>))
        ELSE IF is_absolute(raw.target)
        THEN Err(IoError("InvalidData",
                 <<Part("Failed to read link", Some(link_abs)),
                   Part("Absolute symlink", Some(raw.target))>>))
        ELSE Ok(raw.target),
        {link_abs})

read_link(f, v, link) ==
    LET link_parent == parent(link)
        link_abs == join(v.root, link)
        raw == os_read_link(f, link_abs)
        inner ==
            IF ~raw.ok THEN Err(OsError(raw.kind))
            ELSE IF is_absolute(raw.target)
            THEN Err(IoError("InvalidData", <<Part("Absolute symlink", Some(raw.target))>>))
            ELSE IF link_parent # None THEN Ok(join(link_parent[1], raw.target))
            ELSE Err(IoError("InvalidData", <<Part("Symlink without a parent?", Some(raw.target))>>))
    IN
    Outcome(
        IF inner.tag = "Ok" THEN inner
        ELSE Err(IoError(inner.err[1].kind,
                         <<Part("Failed to read link", Some(link_abs))>> \o inner.err[1].msg)),
        {link_abs})

Stat(kind, path) == [kind |-> kind, path |-> path]

\* PosixFS::stat_internal: the Stat of one entry, named relative to its
\* containing directory; an entry that is no file, directory or link has none.
stat_internal(path_for_stat, file_type) ==
    LET name == file_name(path_for_stat) IN
    IF name = None
    THEN Err(IoError("InvalidInput", <<Part("path to stat must have a file name", Some(path_for_stat))>>))
    ELSE IF file_type = "symlink" THEN Ok(Some(Stat("Symlink", name[1])))
    ELSE IF file_type = "file" THEN Ok(Some(Stat("File", name[1])))
    ELSE IF file_type = "dir" THEN Ok(Some(Stat("Directory", name[1])))
    ELSE Ok(None)

stat_sync(f, v, dbg, relative_path) ==
    IF dbg /\ is_absolute(relative_path)
    THEN Outcome(Err(IoError("InvalidInput",
                     <<Part("Argument relative_path to PosixFS::stat_sync must be relative path",
                            Some(relative_path))>>)), {})
    ELSE
        LET abs_path == join(v.root, relative_path)
            m == IF v.symlink_behavior = "Aware" THEN symlink_metadata(f, abs_path)
                 ELSE metadata(f, abs_path)
            r == IF m.ok THEN stat_internal(abs_path, m.md.kind) ELSE Err(OsError(m.kind))
        IN
        Outcome(IF r.tag = "Err" /\ r.err[1].kind = "NotFound" THEN Ok(None) ELSE r,
                {abs_path})

RECURSIVE BitAnd(_, _)
BitAnd(a, b) ==
    IF a = 0 \/ b = 0 THEN 0
    ELSE (IF a % 2 = 1 /\ b % 2 = 1 THEN 1 ELSE 0) + 2 * BitAnd(a \div 2, b \div 2)

\* 0o111: the three execute bits.
ExecuteBits == 73

PathMetadata(path, kind, symlink_target, md) ==
    [path |-> path, kind |-> kind, length |-> md.len,
     is_executable |-> BitAnd(md.mode, ExecuteBits) # 0,
     unix_mode |-> Some(md.mode), symlink_target |-> symlink_target]

\* path_metadata's first half with no arm for NotFound: it is an error
\* like any other.
path_metadata_query_not_found_is_error(f, v, path) ==
    LET abs_path == join(v.root, path)
        m == symlink_metadata(f, abs_path)
        r == IF ~m.ok THEN Err(OsError(m.kind))
             ELSE IF m.md.kind = "symlink" THEN Ok(None)
             ELSE IF m.md.kind = "dir" THEN Ok(Some(PathMetadata(path, "Directory", None, m.md)))
             ELSE IF m.md.kind = "file" THEN Ok(Some(PathMetadata(path, "File", None, m.md)))
             ELSE Panic("std::fs::FileType was not a symlink, directory, or file")
    IN
    [pending |-> m.ok /\ m.md.kind = "symlink", md |-> m.md, abs_path |-> abs_path, r |-> r]

\* path_metadata up to its first await: the lstat and, unless the entry is
\* a link, the whole answer.  `pending` says a read_link is still to come;
\* `r` is then not yet the answer and is not used.
path_metadata_query(f, v, path) ==
    LET abs_path == join(v.root, path)
        m == symlink_metadata(f, abs_path)
        r == IF ~m.ok
             THEN IF m.kind = "NotFound" THEN Ok(None) ELSE Err(OsError(m.kind))
             ELSE IF m.md.kind = "symlink" THEN Ok(None)
             ELSE IF m.md.kind = "dir" THEN Ok(Some(PathMetadata(path, "Directory", None, m.md)))
             ELSE IF m.md.kind = "file" THEN Ok(Some(PathMetadata(path, "File", None, m.md)))
             ELSE Panic("std::fs::FileType was not a symlink, directory, or file")
    IN
    [pending |-> m.ok /\ m.md.kind = "symlink", md |-> m.md, abs_path |-> abs_path, r |-> r]

\* path_metadata from its second await: the link's target, read again from
\* the filesystem as it is by then.
path_metadata_read_link(f, path, abs_path, md) ==
    LET t == os_read_link(f, abs_path) IN
    IF ~t.ok
    THEN Err(IoError("Other",
             <<Part("was previously a symlink but read_link failed", Some(abs_path)),
               Part("os error", None)>>))
    ELSE Ok(Some(PathMetadata(path, "Symlink", Some(t.target), md)))

\* The names a directory may hold, in sorted order.
Names == <<"a.txt", "abs", "dangling", "esc", "link", "locked", "pipe", "run.sh", "sub", "up", "x">>

\* std::fs::read_dir: the names of a directory's children.
read_dir(f, p) ==
    LET r == Walk(f, <<>>, Anchor(p), TRUE, MaxSymlinkHops) IN
    IF ~r.ok THEN [ok |-> FALSE, kind |-> r.kind, names |-> {}]
    ELSE IF f[r.at].kind # "dir" THEN [ok |-> FALSE, kind |-> "NotADirectory", names |-> {}]
    ELSE IF f[r.at].noaccess THEN [ok |-> FALSE, kind |-> "PermissionDenied", names |-> {}]
    ELSE [ok |-> TRUE, kind |-> "",
          names |-> { q[Len(q)] : q \in { q \in DOMAIN f : /\ Len(q) = Len(r.at) + 1
                                                            /\ SubSeq(q, 1, Len(r.at)) = r.at } }]

DirectoryListing(files, directories, symlinks) ==
    [files |-> files, directories |-> directories, symlinks |-> symlinks]

\* The blocking batch: list the directory, stat every child, drop what has
\* no Stat and what is ignored, and partition the rest by kind, each part
\* sorted by name.
scandir_sync(f, v, dbg, ign, dir) ==
    LET dir_abs == join(v.root, dir)
        d == read_dir(f, dir_abs)
        stat_of(n) == stat_sync(f, v, dbg, join(dir, Rel(<<n>>))).r
        failed == { n \in d.names : stat_of(n).tag = "Err" }
        kept == { n \in d.names :
                    /\ stat_of(n).tag = "Ok"
                    /\ stat_of(n).val[1] # None
                    /\ ~is_ignored(ign, Stat(stat_of(n).val[1][1].kind, join(dir, Rel(<<n>>)))) }
        of_kind(k) ==
            LET in_kind(n) == n \in kept /\ stat_of(n).val[1][1].kind = k IN
            [i \in 1..Len(SelectSeq(Names, in_kind)) |-> stat_of(SelectSeq(Names, in_kind)[i]).val[1][1]]
    IN
    IF ~d.ok THEN Err(OsError(d.kind))
    ELSE IF failed # {} THEN stat_of(CHOOSE n \in failed : TRUE)
    ELSE Ok(DirectoryListing(of_kind("File"), of_kind("Directory"), of_kind("Symlink")))

\* How the blocking task ended: it ran, it panicked, or it was cancelled.
JoinOutcomes == {"completed", "panicked", "cancelled"}

\* tokio's From<JoinError> for io::Error, which `?` applies.
FromJoinError(j) ==
    IoError("Other", <<Part(IF j = "panicked" THEN "task panicked" ELSE "task was cancelled", None)>>)

scandir(f, v, dbg, ign, dir_relative_to_root, j) ==
    IF j # "completed" THEN Err(FromJoinError(j))
    ELSE
        LET s == scandir_sync(f, v, dbg, ign, dir_relative_to_root) IN
        IF s.tag = "Ok" THEN s
        ELSE Err(IoError("Other", <<Part("Synchronous scandir failed", None)>> \o s.err[1].msg))

\* ---------------------------------------------------------------- inputs

\* The roots a caller may try to construct the filesystem on.
RootCandidates ==
    { Abs(<<"repo">>), Rel(<<"r">>), Abs(<<"repo", "a.txt">>), Abs(<<"missing">>), Rel(<<"loop">>) }

SymlinkBehaviors == {"Aware", "Oblivious"}

\* The paths a caller may pass: entries of a listing, a missing one, and
\* absolute ones.
InputPaths ==
    { Rel(<<>>), Rel(<<"a.txt">>), Rel(<<"run.sh">>), Rel(<<"link">>), Rel(<<"pipe">>),
      Rel(<<"esc">>), Rel(<<"sub">>), Rel(<<"sub", "up">>), Rel(<<"sub", "abs">>),
      Rel(<<"sub", "dangling">>), Rel(<<"locked">>), Rel(<<"locked", "x">>), Rel(<<"missing">>),
      Abs(<<"etc", "passwd">>), Abs(<<"work", "r">>) }

\* The ignore sets a filesystem may be constructed with.
IgnoreSets ==
    { {}, { Rel(<<"a.txt">>), Rel(<<"sub">>), Rel(<<"esc">>), Rel(<<"sub", "up">>) } }

NoCall == [op |-> "none", arg |-> Rel(<<>>), r |-> Ok(None), queried |-> {}, task |-> "completed"]
NoInflight == [path |-> Rel(<<>>), abs_path |-> Rel(<<>>), md |-> DirNode]

Deleted == Cardinality(DOMAIN InitialFs) - Cardinality(DOMAIN fs)

\* --------------------------------------------------------------- actions

Init ==
    /\ fs = InitialFs
    /\ vfs = NotConstructed
    /\ ctor = [via |-> "none", root |-> Rel(<<>>), symlink_behavior |-> "Aware"]
    /\ debug_assertions \in BOOLEAN
    /\ ignore \in IgnoreSets
    /\ pc = "idle"
    /\ inflight = NoInflight
    /\ res = NoCall
    /\ fsAtCall = InitialFs
    /\ fsAtRead = InitialFs

\* A caller makes one call at a time and drops each result before the next.
Ready == vfs.tag = "Ok" /\ pc = "idle" /\ res = NoCall
Self == vfs.val[1]

Returned(op, arg, o, task) ==
    /\ res' = [op |-> op, arg |-> arg, r |-> o.r, queried |-> o.queried, task |-> task]
    /\ fsAtCall' = fs
    /\ fsAtRead' = fs
    /\ UNCHANGED <<fs, vfs, ctor, debug_assertions, ignore, pc, inflight>>

New ==
    \E root \in RootCandidates :
        /\ vfs = NotConstructed
        /\ vfs' = new(fs, root)
        /\ ctor' = [via |-> "new", root |-> root, symlink_behavior |-> "Aware"]
        /\ UNCHANGED <<fs, debug_assertions, ignore, pc, inflight, res, fsAtCall, fsAtRead>>

NewWithSymlinkBehavior ==
    \E root \in RootCandidates, sb \in SymlinkBehaviors :
        /\ vfs = NotConstructed
        /\ vfs' = new_with_symlink_behavior(fs, root, sb)
        /\ ctor' = [via |-> "new_with_symlink_behavior", root |-> root, symlink_behavior |-> sb]
        /\ UNCHANGED <<fs, debug_assertions, ignore, pc, inflight, res, fsAtCall, fsAtRead>>

ReadLink ==
    \E link \in InputPaths :
        /\ Ready
        /\ Returned("read_link", link, read_link(fs, Self, link), "completed")

StatSync ==
    \E relative_path \in InputPaths :
        /\ Ready
        /\ Returned("stat_sync", relative_path, stat_sync(fs, Self, debug_assertions, relative_path),
                    "completed")

Scandir ==
    \E dir \in InputPaths, j \in JoinOutcomes :
        /\ Ready
        /\ Returned("scandir", dir,
                    Outcome(scandir(fs, Self, debug_assertions, ignore, dir, j), {join(Self.root, dir)}), j)

\* path_metadata to its first await: it returns, or suspends before the
\* read_link of a link.
PathMetadataQuery ==
    \E path \in InputPaths :
        LET q == path_metadata_query(fs, Self, path) IN
        /\ Ready
        /\ IF q.pending
           THEN /\ pc' = "pm_read"
                /\ inflight' = [path |-> path, abs_path |-> q.abs_path, md |-> q.md]
                /\ res' = NoCall
                /\ fsAtCall' = fs
                /\ fsAtRead' = fs
                /\ UNCHANGED <<fs, vfs, ctor, debug_assertions, ignore>>
           ELSE Returned("path_metadata", path, Outcome(q.r, {q.abs_path}), "completed")

\* path_metadata resumed: the read_link, on the filesystem as it is now.
PathMetadataReadLink ==
    /\ pc = "pm_read"
    /\ res' = [op |-> "path_metadata", arg |-> inflight.path,
               r |-> path_metadata_read_link(fs, inflight.path, inflight.abs_path, inflight.md),
               queried |-> {inflight.abs_path}, task |-> "completed"]
    /\ fsAtRead' = fs
    /\ pc' = "idle"
    /\ inflight' = NoInflight
    /\ UNCHANGED <<fs, vfs, ctor, debug_assertions, ignore, fsAtCall>>

\* The caller is done with the result: the values are ephemeral.
Drop ==
    /\ pc = "idle"
    /\ res # NoCall
    /\ res' = NoCall
    /\ fsAtCall' = fs
    /\ fsAtRead' = fs
    /\ UNCHANGED <<fs, vfs, ctor, debug_assertions, ignore, pc, inflight>>

\* Another process removes an entry.
Delete ==
    \E p \in Deletable :
        /\ vfs.tag = "Ok"
        /\ p \in DOMAIN fs
        /\ Deleted < MaxDeletes
        /\ fs' = [q \in DOMAIN fs \ {p} |-> fs[q]]
        /\ UNCHANGED <<vfs, ctor, debug_assertions, ignore, pc, inflight, res, fsAtCall, fsAtRead>>

Next ==
    \/ New
    \/ NewWithSymlinkBehavior
    \/ ReadLink
    \/ StatSync
    \/ Scandir
    \/ PathMetadataQuery
    \/ PathMetadataReadLink
    \/ Drop
    \/ Delete

Spec == Init /\ [][Next]_vars

\* ----------------------------------------------------------------- claims

\* What is on disk, for the call `res` records: the link target stored at
\* the called path, and the entry there, at the time of the first query.
RawTarget == os_read_link(fsAtCall, join(Self.root, res.arg))
EntryAtCall == symlink_metadata(fsAtCall, join(Self.root, res.arg))
Called(ops) == vfs.tag = "Ok" /\ res.op \in ops

\* The location of a relative path under the root, and whether a listing
\* of the initial filesystem showed it and a later filesystem lacks it.
Location(p) == Self.root.comps \o p.comps
WasListed(p) == ~p.abs /\ Location(p) \in DOMAIN InitialFs /\ Location(p) \in Deletable
Gone(f, p) == Location(p) \notin DOMAIN f

\* C1: read_link on a link whose stored target is absolute fails with the
\* absolute-symlink error, which names the target; it returns no path.
C1_State ==
    (Called({"read_link"}) /\ RawTarget.ok /\ RawTarget.target.abs) =>
        /\ res.r.tag = "Err"
        /\ res.r.val = None
        /\ res.r.err[1].kind = "InvalidData"
        /\ res.r.err[1].msg[Len(res.r.err[1].msg)] = Part("Absolute symlink", Some(RawTarget.target))

\* C1: read_link on a link whose stored target is absolute always fails
\* with the absolute-symlink error, and a step that returns from read_link
\* leaves the filesystem as it was.
C1_AbsoluteTargetRejected ==
    /\ []C1_State
    /\ [][(res' # res /\ res'.op = "read_link") => fs' = fs]_vars

C1_Witness ==
    /\ Called({"read_link"})
    /\ res.arg = Rel(<<"sub", "abs">>)
    /\ RawTarget.ok /\ RawTarget.target = Abs(<<"etc", "passwd">>)
    /\ res.r.tag = "Err"

\* C5: read_link on a link whose stored target is relative returns the
\* link's path without its last component, followed by the target's
\* components as stored; for a link directly under the root that is the
\* target itself.
C5_RelativeTargetJoinedOntoParent ==
    (Called({"read_link"}) /\ RawTarget.ok /\ ~RawTarget.target.abs) =>
        /\ res.arg.comps # <<>>
        /\ res.r = Ok(Path(res.arg.abs,
                           SubSeq(res.arg.comps, 1, Len(res.arg.comps) - 1) \o RawTarget.target.comps))
        /\ (~res.arg.abs /\ Len(res.arg.comps) = 1) => res.r = Ok(RawTarget.target)

\* A link in a subdirectory whose joined target does not exist.
C5_Witness ==
    /\ Called({"read_link"})
    /\ res.arg = Rel(<<"sub", "dangling">>)
    /\ res.r = Ok(Rel(<<"sub", "gone.txt">>))
    /\ ~metadata(fsAtCall, join(Self.root, res.r.val[1])).ok

\* Every proper prefix of an absolute path is a real directory: no link is
\* left to resolve and no ".." to apply.
IsCanonical(f, comps) ==
    \A i \in 0..Len(comps) :
        /\ SubSeq(comps, 1, i) \in DOMAIN f
        /\ f[SubSeq(comps, 1, i)].kind = "dir"

\* C7: the constructor returns an instance exactly when the candidate root
\* canonicalizes to a directory; the instance then holds the canonical
\* absolute path (and the mode asked for, Aware from `new`); otherwise it
\* returns an error that carries the candidate and the cause.
C7_ConstructionAllOrNothing ==
    LET c == canonicalize(InitialFs, ctor.root)
        isdir == c.ok /\ InitialFs[c.at].kind = "dir"
    IN
    vfs # NotConstructed =>
        /\ vfs.tag \in {"Ok", "Err"}
        /\ vfs.tag = "Ok" <=> isdir
        /\ vfs.tag = "Ok" =>
            /\ vfs.err = None
            /\ vfs.val[1].root = Abs(c.at)
            /\ IsCanonical(InitialFs, vfs.val[1].root.comps)
            /\ vfs.val[1].symlink_behavior = ctor.symlink_behavior
            /\ ctor.via = "new" => vfs.val[1].symlink_behavior = "Aware"
        /\ vfs.tag = "Err" =>
            /\ vfs.val = None
            /\ vfs.err[1].path = ctor.root
            /\ vfs.err[1].cause.kind = (IF c.ok THEN "InvalidInput" ELSE c.kind)

\* A relative candidate that reaches the root through a link.
C7_Witness ==
    /\ vfs.tag = "Ok"
    /\ ctor.root = Rel(<<"r">>)
    /\ vfs.val[1].root = Abs(<<"repo">>)

\* The entries of a listing.
Entries(l) ==
    { l.files[i] : i \in 1..Len(l.files) }
    \cup { l.directories[i] : i \in 1..Len(l.directories) }
    \cup { l.symlinks[i] : i \in 1..Len(l.symlinks) }

\* C4: a listing scandir returns holds no entry the ignore set matches.
C4_ListingHasNoIgnoredEntry ==
    (Called({"scandir"}) /\ res.r.tag = "Ok") =>
        \A e \in Entries(res.r.val[1]) :
            ~GitignoreIsIgnored(ignore, Stat(e.kind, join(res.arg, e.path)))

\* A listing of the root that left out a.txt, which is on disk and ignored.
C4_Witness ==
    /\ Called({"scandir"}) /\ res.arg = Rel(<<>>) /\ res.r.tag = "Ok"
    /\ Rel(<<"a.txt">>) \in ignore
    /\ Location(Rel(<<"a.txt">>)) \in DOMAIN fsAtCall
    /\ Entries(res.r.val[1]) # {}
    /\ \A e \in Entries(res.r.val[1]) : e.path # Rel(<<"a.txt">>)

\* C2 as stated: stat_sync or path_metadata on a listed path that is gone
\* by the call's last query returns Ok(None), never an error.
C2_Original ==
    (Called({"stat_sync", "path_metadata"}) /\ WasListed(res.arg) /\ Gone(fsAtRead, res.arg)) =>
        res.r = Ok(None)

\* C2: stat_sync or path_metadata on a listed path deleted before the
\* call's metadata query returns Ok(None); a deletion between
\* path_metadata's metadata query and its read of the link's target makes
\* the call fail with an I/O error of kind Other.
C2_Amended ==
    /\ (Called({"stat_sync", "path_metadata"}) /\ WasListed(res.arg) /\ Gone(fsAtCall, res.arg)) =>
            res.r = Ok(None)
    /\ (Called({"path_metadata"}) /\ WasListed(res.arg)
            /\ ~Gone(fsAtCall, res.arg) /\ Gone(fsAtRead, res.arg)) =>
            /\ res.r.tag = "Err"
            /\ res.r.err[1].kind = "Other"
            /\ res.r.err[1].msg[1].text = "was previously a symlink but read_link failed"

\* A link that path_metadata saw and that was deleted before its target
\* was read.
C2_Witness ==
    /\ Called({"path_metadata"}) /\ res.arg = Rel(<<"link">>) /\ WasListed(res.arg)
    /\ ~Gone(fsAtCall, res.arg) /\ Gone(fsAtRead, res.arg)
    /\ res.r.tag = "Err"

KindOf(file_type) ==
    IF file_type = "symlink" THEN "Symlink"
    ELSE IF file_type = "dir" THEN "Directory"
    ELSE IF file_type = "file" THEN "File" ELSE "Other"

\* C3 as stated: for a link (with no deletion during the call), stat_sync
\* and path_metadata report Symlink in Aware mode, path_metadata with the
\* target; in Oblivious mode both report the kind of the resolved target,
\* and path_metadata no target.
C3_Original ==
    (Called({"stat_sync", "path_metadata"}) /\ ~res.arg.abs /\ fsAtRead = fsAtCall
        /\ EntryAtCall.ok /\ EntryAtCall.md.kind = "symlink") =>
        LET resolved == metadata(fsAtCall, join(Self.root, res.arg)) IN
        /\ Self.symlink_behavior = "Aware" =>
            /\ res.r.tag = "Ok" /\ res.r.val[1] # None
            /\ res.r.val[1][1].kind = "Symlink"
            /\ res.op = "path_metadata" => res.r.val[1][1].symlink_target # None
        /\ (Self.symlink_behavior = "Oblivious" /\ resolved.ok) =>
            /\ res.r.tag = "Ok" /\ res.r.val[1] # None
            /\ res.r.val[1][1].kind = KindOf(resolved.md.kind)
            /\ res.op = "path_metadata" => res.r.val[1][1].symlink_target = None

\* Whether an absolute path lies, component by component, under the root.
UnderRoot(q) ==
    /\ q.abs
    /\ Len(q.comps) >= Len(Self.root.comps)
    /\ SubSeq(q.comps, 1, Len(Self.root.comps)) = Self.root.comps

\* C6 as stated: stat_sync and path_metadata reject an absolute path
\* without querying it, and query only locations under the root.
C6_Original ==
    Called({"stat_sync", "path_metadata"}) =>
        /\ res.arg.abs => (res.r.tag = "Err" /\ res.queried = {})
        /\ ~res.arg.abs => \A q \in res.queried : UnderRoot(q)

\* C8 as stated: scandir answers a failed worker task with the generic
\* "Synchronous scandir failed" error, and passes an I/O error of the scan
\* itself on unchanged.
C8_Original ==
    Called({"scandir"}) =>
        LET scan == scandir_sync(fsAtCall, Self, debug_assertions, ignore, res.arg) IN
        /\ res.task # "completed" =>
            /\ res.r.tag = "Err"
            /\ res.r.err[1].msg[1].text = "Synchronous scandir failed"
        /\ (res.task = "completed" /\ scan.tag = "Err") => res.r = scan

\* C9 as stated: the symlink_target path_metadata reports for a link is
\* what read_link returns for it, and never an absolute stored target.
C9_Original ==
    (Called({"path_metadata"}) /\ ~res.arg.abs /\ fsAtRead = fsAtCall
        /\ EntryAtCall.ok /\ EntryAtCall.md.kind = "symlink") =>
        LET rl == read_link(fsAtCall, Self, res.arg).r
            reported == IF res.r.tag = "Ok" /\ res.r.val[1] # None
                        THEN res.r.val[1][1].symlink_target ELSE None
        IN
        /\ RawTarget.target.abs => reported # Some(RawTarget.target)
        /\ rl.tag = "Ok" => reported = Some(rl.val[1])

\* C10 as stated: path_metadata on an existing entry of any type returns
\* a snapshot of kind Symlink, Directory or File, or an error; it never
\* panics.
C10_Original ==
    (Called({"path_metadata"}) /\ EntryAtCall.ok) =>
        /\ res.r.tag \in {"Ok", "Err"}
        /\ (res.r.tag = "Ok" /\ res.r.val[1] # None) =>
                res.r.val[1][1].kind \in {"Symlink", "Directory", "File"}

====
